---------------------------- MODULE Spec2Model ----------------------------
(***************************************************************************)
(* A model of src/main/common/maths.c (EmuFlight): the fast trigonometric  *)
(* approximations, the scalar utilities, the running-statistics            *)
(* accumulator, the orientation algebra and the fixed-size median filters. *)
(*                                                                         *)
(* Numbers.  A C float is modelled as a decimal fixed-point number: the    *)
(* integer n stands for n / Scale (Scale = 10^7, a resolution of 1e-7,     *)
(* close to the 2^-24 relative precision of a single-precision float).     *)
(* Products and quotients are truncated to that resolution, so, like a     *)
(* float, the model loses low-order digits and the square of a small       *)
(* enough non-zero number is 0 (below about 3e-4 here, below about 3.7e-23 *)
(* for a float: the model's range is reduced as its integers' widths are). *)
(* Values whose products are representable (0.5, 0.6, 0.8, small integers) *)
(* are computed exactly.  NaN and the infinities are not modelled.  The    *)
(* running                                                                 *)
(* statistics, whose claim is about exact arithmetic and which divide by   *)
(* the sample count, use exact rationals <<num, den>> instead.             *)
(* C int / long are modelled with reduced widths (two's complement, wrap   *)
(* modulo 2^width), the widths being definitions below.                    *)
(***************************************************************************)
EXTENDS Integers, Sequences, FiniteSets

VARIABLES
    pc,          \* position of the calling code
    args,        \* by-value arguments of the call under study
    ret,         \* value returned by the most recent call
    fault,       \* TRUE once a call divided by zero or overflowed an integer
    dev,         \* the caller-owned stdev_t accumulator
    samples,     \* history: the samples pushed since the last devClear, and
                 \* whether a devClear has discarded samples
    qVector,     \* quaternion *qVector of the frame transforms
    qReference,  \* quaternion *qReference of the frame transforms
    src,         \* struct fp_vector *src of normalizeV
    dest,        \* struct fp_vector *dest of normalizeV
    q,           \* quaternion *q of quaternionNormalize
    matrix,      \* float matrix[3][3] written by buildRotationMatrix
    x,           \* the local x of sin_approx while it is stepped through
    iters        \* history: wrap-loop iterations executed by sin_approx

vars == <<pc, args, ret, fault, dev, samples, qVector, qReference,
          src, dest, q, matrix, x, iters>>

\* The value of a variable a specification does not use.
None == "none"

-----------------------------------------------------------------------------
(* Fixed-point arithmetic standing for the C float operators.              *)

\* Scale = Half * Kilo = 10^7; Half and Kilo split a product so that every
\* intermediate value stays inside the model checker's integers.
Half == 10^4
Kilo == 10^3
Scale == Half * Kilo

Abs(a) == IF a < 0 THEN -a ELSE a
Sgn(a) == IF a < 0 THEN -1 ELSE 1

\* fabsf
fabsf(a) == Abs(a)

MAX(a, b) == IF a > b THEN a ELSE b
MIN(a, b) == IF a < b THEN a ELSE b

\* |a| * |b| / Scale, truncated, for a, b >= 0.
FMulAbs(a, b) ==
    LET a1 == a \div Half
        a0 == a % Half
        b1 == b \div Half
        b0 == b % Half
    IN  a1 * b1 * 10 + (a1 * b0 + a0 * b1 + (a0 * b0) \div Half) \div Kilo

\* float a * b
FMul(a, b) == Sgn(a) * Sgn(b) * FMulAbs(Abs(a), Abs(b))

\* Long division: n fractional decimal digits of r / b appended to acc (0 <= r < b).
RECURSIVE FDivDigits(_, _, _, _)
FDivDigits(r, b, acc, n) ==
    IF n = 0 THEN acc
    ELSE FDivDigits((r * 10) % b, b, acc * 10 + (r * 10) \div b, n - 1)

\* |a| * Scale / |b|, truncated, for a >= 0, b > 0.
FDivAbs(a, b) == FDivDigits(a % b, b, a \div b, 7)

\* float a / b (b # 0)
FDiv(a, b) == Sgn(a) * Sgn(b) * FDivAbs(Abs(a), Abs(b))

\* Newton's iteration for floor(sqrt(a * Scale)), from a start y >= the root.
RECURSIVE SqrtIter(_, _)
SqrtIter(a, y) ==
    LET y2 == (y + FDivAbs(a, y)) \div 2
    IN  IF y2 >= y THEN y ELSE SqrtIter(a, y2)

\* sqrtf(a) for a >= 0
sqrtf(a) == IF a = 0 THEN 0 ELSE SqrtIter(a, MAX(a, Scale))

\* The float a truncated toward zero to an integer.
TruncToInt(a) == Sgn(a) * (Abs(a) \div Scale)

\* The float with the integer value n.
F(n) == n * Scale

\* Two's-complement integers of a given width; Wrap is what the hardware
\* leaves of a result that does not fit.
IntMin(bits) == -(2^(bits - 1))
IntMax(bits) == 2^(bits - 1) - 1
Fits(n, bits) == IntMin(bits) <= n /\ n <= IntMax(bits)
Wrap(n, bits) == ((n - IntMin(bits)) % 2^bits) + IntMin(bits)

-----------------------------------------------------------------------------
(* Quick median filters, maths.c lines 207-346.                            *)

\* Largest sample value of the windows of 3 and 5 (values 1..MaxVal5), of 7
\* (values 0..MaxVal7) and of 9 (values 0..MaxVal9).
MaxVal5 == 5
MaxVal7 == 3
MaxVal9 == 2

\* An exchange without the temporary: (a)=(b);(b)=(a) leaves both equal.
QMF_SWAP_NoTemp(p, a, b) == [p EXCEPT ![a] = p[b]]

\* QMF_SWAP(a,b): { int32_t temp=(a);(a)=(b);(b)=temp; }
QMF_SWAP(p, a, b) == [p EXCEPT ![a] = p[b], ![b] = p[a]]

\* QMF_SORT(a,b): { if ((a)>(b)) QMF_SWAP((a),(b)); }
QMF_SORT(p, a, b) == IF p[a] > p[b] THEN QMF_SWAP(p, a, b) ELSE p

\* QMF_SORTF(a,b): the same comparator on floats (NaN-free: a total order).
QMF_SORTF(p, a, b) == IF p[a] > p[b] THEN QMF_SWAP(p, a, b) ELSE p

\* The comparators of a body, applied in program order.
RECURSIVE RunSorts(_, _, _)
RunSorts(p, net, i) ==
    IF i > Len(net) THEN p
    ELSE RunSorts(QMF_SORT(p, net[i][1], net[i][2]), net, i + 1)

RECURSIVE RunSortsF(_, _, _)
RunSortsF(p, net, i) ==
    IF i > Len(net) THEN p
    ELSE RunSortsF(QMF_SORTF(p, net[i][1], net[i][2]), net, i + 1)

\* QMF_COPY(p,v,n): p[i] = v[i] for i in 0..n-1.
QMF_COPY(v, n) == [i \in 0..(n - 1) |-> v[i]]

Sorts3 == << <<0,1>>, <<1,2>>, <<0,1>> >>

Sorts5 == << <<0,1>>, <<3,4>>, <<0,3>>, <<1,4>>, <<1,2>>, <<2,3>>, <<1,2>> >>

Sorts7 == << <<0,5>>, <<0,3>>, <<1,6>>, <<2,4>>, <<0,1>>, <<3,5>>, <<2,6>>,
             <<2,3>>, <<3,6>>, <<4,5>>, <<1,4>>, <<1,3>>, <<3,4>> >>

Sorts9 == << <<1,2>>, <<4,5>>, <<7,8>>, <<0,1>>, <<3,4>>, <<6,7>>, <<1,2>>,
             <<4,5>>, <<7,8>>, <<0,3>>, <<5,8>>, <<4,7>>, <<3,6>>, <<1,4>>,
             <<2,5>>, <<4,7>>, <<4,2>>, <<6,4>>, <<4,2>> >>

Sorts3f == << <<0,1>>, <<1,2>>, <<0,1>> >>

Sorts5f == << <<0,1>>, <<3,4>>, <<0,3>>, <<1,4>>, <<1,2>>, <<2,3>>, <<1,2>> >>

Sorts7f == << <<0,5>>, <<0,3>>, <<1,6>>, <<2,4>>, <<0,1>>, <<3,5>>, <<2,6>>,
              <<2,3>>, <<3,6>>, <<4,5>>, <<1,4>>, <<1,3>>, <<3,4>> >>

Sorts9f == << <<1,2>>, <<4,5>>, <<7,8>>, <<0,1>>, <<3,4>>, <<6,7>>, <<1,2>>,
              <<4,5>>, <<7,8>>, <<0,3>>, <<5,8>>, <<4,7>>, <<3,6>>, <<1,4>>,
              <<2,5>>, <<4,7>>, <<4,2>>, <<6,4>>, <<4,2>> >>

quickMedianFilter3(v) == RunSorts(QMF_COPY(v, 3), Sorts3, 1)[1]
quickMedianFilter5(v) == RunSorts(QMF_COPY(v, 5), Sorts5, 1)[2]
quickMedianFilter7(v) == RunSorts(QMF_COPY(v, 7), Sorts7, 1)[3]
quickMedianFilter9(v) == RunSorts(QMF_COPY(v, 9), Sorts9, 1)[4]

quickMedianFilter3f(v) == RunSortsF(QMF_COPY(v, 3), Sorts3f, 1)[1]
quickMedianFilter5f(v) == RunSortsF(QMF_COPY(v, 5), Sorts5f, 1)[2]
quickMedianFilter7f(v) == RunSortsF(QMF_COPY(v, 7), Sorts7f, 1)[3]
quickMedianFilter9f(v) == RunSortsF(QMF_COPY(v, 9), Sorts9f, 1)[4]

\* The windows the filters are called on.
Windows ==
    [0..2 -> 1..MaxVal5] \cup [0..4 -> 1..MaxVal5]
        \cup [0..6 -> 0..MaxVal7] \cup [0..8 -> 0..MaxVal9]

WindowSize(v) == Cardinality(DOMAIN v)

InitMedian ==
    /\ pc = "window"
    /\ args \in Windows
    /\ ret = None
    /\ fault = FALSE
    /\ dev = None /\ samples = None /\ qVector = None /\ qReference = None
    /\ src = None /\ dest = None /\ q = None /\ matrix = None
    /\ x = None /\ iters = None

MedianFrame ==
    UNCHANGED <<args, fault, dev, samples, qVector, qReference,
                src, dest, q, matrix, x, iters>>

CallQuickMedianFilter3 ==
    /\ pc = "window" /\ WindowSize(args) = 3
    /\ ret' = quickMedianFilter3(args)
    /\ pc' = "int"
    /\ MedianFrame

CallQuickMedianFilter5 ==
    /\ pc = "window" /\ WindowSize(args) = 5
    /\ ret' = quickMedianFilter5(args)
    /\ pc' = "int"
    /\ MedianFrame

CallQuickMedianFilter7 ==
    /\ pc = "window" /\ WindowSize(args) = 7
    /\ ret' = quickMedianFilter7(args)
    /\ pc' = "int"
    /\ MedianFrame

CallQuickMedianFilter9 ==
    /\ pc = "window" /\ WindowSize(args) = 9
    /\ ret' = quickMedianFilter9(args)
    /\ pc' = "int"
    /\ MedianFrame

CallQuickMedianFilter3f ==
    /\ pc = "int" /\ WindowSize(args) = 3
    /\ ret' = quickMedianFilter3f(args)
    /\ pc' = "float"
    /\ MedianFrame

CallQuickMedianFilter5f ==
    /\ pc = "int" /\ WindowSize(args) = 5
    /\ ret' = quickMedianFilter5f(args)
    /\ pc' = "float"
    /\ MedianFrame

CallQuickMedianFilter7f ==
    /\ pc = "int" /\ WindowSize(args) = 7
    /\ ret' = quickMedianFilter7f(args)
    /\ pc' = "float"
    /\ MedianFrame

CallQuickMedianFilter9f ==
    /\ pc = "int" /\ WindowSize(args) = 9
    /\ ret' = quickMedianFilter9f(args)
    /\ pc' = "float"
    /\ MedianFrame

NextMedian ==
    \/ CallQuickMedianFilter3
    \/ CallQuickMedianFilter5
    \/ CallQuickMedianFilter7
    \/ CallQuickMedianFilter9
    \/ CallQuickMedianFilter3f
    \/ CallQuickMedianFilter5f
    \/ CallQuickMedianFilter7f
    \/ CallQuickMedianFilter9f

SpecMedian == InitMedian /\ [][NextMedian]_vars

\* The value at index (N-1)/2 of the window sorted in ascending order: at most
\* (N-1)/2 elements are smaller and more than (N-1)/2 are no larger.
TrueMedian(v) ==
    LET k == (WindowSize(v) - 1) \div 2
    IN  CHOOSE m \in {v[i] : i \in DOMAIN v} :
            /\ Cardinality({i \in DOMAIN v : v[i] < m}) <= k
            /\ Cardinality({i \in DOMAIN v : v[i] <= m}) >= k + 1

\* C1: for N in {3,5,7,9} and every window of N values (any order, duplicates
\* allowed) quickMedianFilterN returns the true median, and quickMedianFilterNf,
\* called on the same window, returns the same element.
C1_MedianIsTrueMedian ==
    pc \in {"int", "float"} => ret = TrueMedian(args)

\* C1 witness: the float filter of 9 has returned the median of a window holding
\* both values, and the window was not sorted to begin with.
C1_Witness ==
    /\ pc = "float"
    /\ WindowSize(args) = 9
    /\ args[0] > args[8]
    /\ ret = 1
    /\ Cardinality({i \in DOMAIN args : args[i] = 1}) = 5

-----------------------------------------------------------------------------
(* Fast trigonometric approximations, maths.c lines 27-98 (the FAST_MATH   *)
(* coefficient set, lines 41-44).                                          *)

\* M_PIf (maths.h), 3.14159265358979323846f.
M_PIf == 31415927

sinPolyCoef3 == -1666666
sinPolyCoef5 == 83330
sinPolyCoef7 == -1981
sinPolyCoef9 == 26

\* (2.0f * M_PIf) and (0.5f * M_PIf)
TwoPi == FMul(F(2), M_PIf)
HalfPi == FMul(Scale \div 2, M_PIf)

\* Width standing for the 32 bits of xint: floats beyond +-2^(XintBits-1) do
\* not fit the integer they are converted to.
XintBits == 7

\* int32_t xint = x: the conversion truncates toward zero.  Of a float that
\* does not fit it is undefined; the FPU instruction it compiles to saturates
\* (ARM VCVT) or yields the least integer (x86 CVTTSS2SI).
ToInt32(a) ==
    IF IntMin(XintBits) <= TruncToInt(a) /\ TruncToInt(a) <= IntMax(XintBits)
    THEN {TruncToInt(a)}
    ELSE {IF a < 0 THEN IntMin(XintBits) ELSE IntMax(XintBits), IntMin(XintBits)}

\* A guard that lets through every angle up to 63 radians.
SinRejects_Wide(xint) == xint < -63 \/ xint > 63

\* if (xint < -32 || xint > 32) return 0.0f;
SinRejects(xint) == xint < -32 \/ xint > 32

\* while (x > M_PIf) x -= (2.0f * M_PIf);
RECURSIVE WrapDown(_)
WrapDown(a) == IF a > M_PIf THEN WrapDown(a - TwoPi) ELSE a

\* while (x < -M_PIf) x += (2.0f * M_PIf);
RECURSIVE WrapUp(_)
WrapUp(a) == IF a < -M_PIf THEN WrapUp(a + TwoPi) ELSE a

\* The reflection into -90..+90 degrees, lines 51-52.
Fold(a) ==
    IF a > HalfPi THEN HalfPi - (a - HalfPi)
    ELSE IF a < -HalfPi THEN -HalfPi - (HalfPi + a)
    ELSE a

\* The polynomial of lines 53-54.
SinPoly(a) ==
    LET x2 == FMul(a, a)
    IN  a + FMul(FMul(a, x2),
                 sinPolyCoef3 + FMul(x2,
                 sinPolyCoef5 + FMul(x2,
                 sinPolyCoef7 + FMul(x2, sinPolyCoef9))))

\* sin_approx(x), for an x on which every outcome of the conversion takes the
\* same side of the guard.
sin_approx(a) ==
    IF \E xint \in ToInt32(a) : SinRejects(xint) THEN 0
    ELSE SinPoly(Fold(WrapUp(WrapDown(a))))

cos_approx(a) == sin_approx(a + HalfPi)

atanPolyCoef1 == 3
atanPolyCoef2 == 9999736
atanPolyCoef3 == 1474401
atanPolyCoef4 == 3099814
atanPolyCoef5 == 503018
atanPolyCoef6 == 1471039
atanPolyCoef7 == 6444641

\* The ratio without the test of line 77: it divides whatever the maximum is.
\* (A float 0/0 is a NaN; the model records the divisor and stands 0 for it.)
AtanRatio_Unguarded(absX, absY) ==
    LET m == MAX(absX, absY)
    IN  [val |-> IF m # 0 THEN FDiv(MIN(absX, absY), m) ELSE 0, divisors |-> {m}]

\* Lines 76-78: res = MAX(absX, absY); if (res) res = MIN(absX, absY) / res;
\* else res = 0.0f;  val is res, divisors the divisors the code divided by.
AtanRatio(absX, absY) ==
    LET m == MAX(absX, absY)
    IN  IF m # 0 THEN [val |-> FDiv(MIN(absX, absY), m), divisors |-> {m}]
        ELSE [val |-> 0, divisors |-> {}]

\* Numerator and denominator of line 79.
AtanNumerator(r) ==
    -(FMul(FMul(FMul(FMul(atanPolyCoef5, r) - atanPolyCoef4, r)
                - atanPolyCoef3, r) - atanPolyCoef2, r) - atanPolyCoef1)

AtanDenominator(r) == FMul(FMul(atanPolyCoef7, r) + atanPolyCoef6, r) + F(1)

\* Every divisor atan2_approx(y, x) divides by.
atan2_divisors(ay, ax) ==
    LET r == AtanRatio(fabsf(ax), fabsf(ay))
    IN  r.divisors \cup {AtanDenominator(r.val)}

atan2_approx(ay, ax) ==
    LET absX == fabsf(ax)
        absY == fabsf(ay)
        r    == AtanRatio(absX, absY).val
        den  == AtanDenominator(r)
        res1 == IF den # 0 THEN FDiv(AtanNumerator(r), den) ELSE 0
        res2 == IF absY > absX THEN FDiv(M_PIf, F(2)) - res1 ELSE res1
        res3 == IF ax < 0 THEN M_PIf - res2 ELSE res2
    IN  IF ay < 0 THEN -res3 ELSE res3

\* atan2_approx is called on the points (k/2, l/2), |k|, |l| <= MaxAtanK.
MaxAtanK == 5

AtanInputs == {k * (Scale \div 2) : k \in (-MaxAtanK)..MaxAtanK}

InitAtan ==
    /\ pc = "call"
    /\ args \in [y : AtanInputs, x : AtanInputs]
    /\ ret = None
    /\ fault = FALSE
    /\ dev = None /\ samples = None /\ qVector = None /\ qReference = None
    /\ src = None /\ dest = None /\ q = None /\ matrix = None
    /\ x = None /\ iters = None

CallAtan2Approx ==
    /\ pc = "call"
    /\ ret' = atan2_approx(args.y, args.x)
    /\ fault' = (0 \in atan2_divisors(args.y, args.x))
    /\ pc' = "done"
    /\ UNCHANGED <<args, dev, samples, qVector, qReference,
                   src, dest, q, matrix, x, iters>>

NextAtan == CallAtan2Approx

SpecAtan == InitAtan /\ [][NextAtan]_vars

\* C2 as stated: atan2_approx(0, 0) returns exactly 0 and divides by no zero.
C2_ReturnsExactlyZero ==
    (pc = "done" /\ args.x = 0 /\ args.y = 0) => (ret = 0 /\ ~fault)

\* C2, amended: atan2_approx(0, 0) divides by no zero and returns the value of
\* the rational approximation at ratio 0, atanPolyCoef1 (about 3.1e-7: not 0,
\* but within the documented 7.15e-7 of it); and no call divides by zero.
C2_ReturnsPolyAtZero ==
    pc = "done" =>
        /\ ~fault
        /\ (args.x = 0 /\ args.y = 0) => (ret = atanPolyCoef1 /\ ret # 0)

\* C2 witness: the call with x = 0 and y = 0 has returned.
C2_Witness == pc = "done" /\ args.x = 0 /\ args.y = 0 /\ ret = atanPolyCoef1

-----------------------------------------------------------------------------
(* sin_approx stepped through statement by statement, lines 46-55.         *)

\* sin_approx is called on k * SinStep (0.37 rad) for |k| <= MaxSinK, which
\* reaches past the +-32 guard, on the edges of the guard and of the loops,
\* and on floats at and beyond the range of xint.
MaxSinK == 100
SinStep == 37 * 10^5

SinInputs ==
    {k * SinStep : k \in (-MaxSinK)..MaxSinK}
        \cup {M_PIf, M_PIf + 1, -M_PIf, -M_PIf - 1,
              F(33) - 1, F(33), 1 - F(33), -F(33),
              F(63), -F(64), F(64), -F(65), F(70), -F(70)}

\* What ret holds until sin_approx returns: a float no sine can be.  (A number,
\* so that the states of a call can be compared with one another.)
NotReturned == -F(2)

InitSin ==
    /\ pc = "guard"
    /\ args \in SinInputs
    /\ x = args
    /\ iters = 0
    /\ ret = NotReturned
    /\ fault = FALSE
    /\ dev = None /\ samples = None /\ qVector = None /\ qReference = None
    /\ src = None /\ dest = None /\ q = None /\ matrix = None

SinFrame ==
    UNCHANGED <<args, fault, dev, samples, qVector, qReference,
                src, dest, q, matrix>>

\* Line 48, the guard taken: return 0.0f.
SinGuardReturn ==
    /\ pc = "guard"
    /\ \E xint \in ToInt32(x) : SinRejects(xint)
    /\ ret' = 0
    /\ pc' = "done"
    /\ UNCHANGED <<x, iters>> /\ SinFrame

\* Line 48, the guard passed.
SinGuardPass ==
    /\ pc = "guard"
    /\ \E xint \in ToInt32(x) : ~SinRejects(xint)
    /\ pc' = "wrapDown"
    /\ UNCHANGED <<x, iters, ret>> /\ SinFrame

\* Line 49, one iteration.
SinWrapDownStep ==
    /\ pc = "wrapDown" /\ x > M_PIf
    /\ x' = x - TwoPi
    /\ iters' = iters + 1
    /\ UNCHANGED <<pc, ret>> /\ SinFrame

\* Line 49, the loop left.
SinWrapDownExit ==
    /\ pc = "wrapDown" /\ ~(x > M_PIf)
    /\ pc' = "wrapUp"
    /\ UNCHANGED <<x, iters, ret>> /\ SinFrame

\* Line 50, one iteration.
SinWrapUpStep ==
    /\ pc = "wrapUp" /\ x < -M_PIf
    /\ x' = x + TwoPi
    /\ iters' = iters + 1
    /\ UNCHANGED <<pc, ret>> /\ SinFrame

\* Line 50, the loop left.
SinWrapUpExit ==
    /\ pc = "wrapUp" /\ ~(x < -M_PIf)
    /\ pc' = "fold"
    /\ UNCHANGED <<x, iters, ret>> /\ SinFrame

\* Lines 51-52.
SinFold ==
    /\ pc = "fold"
    /\ x' = Fold(x)
    /\ pc' = "poly"
    /\ UNCHANGED <<iters, ret>> /\ SinFrame

\* Lines 53-54.
SinReturn ==
    /\ pc = "poly"
    /\ ret' = SinPoly(x)
    /\ pc' = "done"
    /\ UNCHANGED <<x, iters>> /\ SinFrame

NextSin ==
    \/ SinGuardReturn
    \/ SinGuardPass
    \/ SinWrapDownStep
    \/ SinWrapDownExit
    \/ SinWrapUpStep
    \/ SinWrapUpExit
    \/ SinFold
    \/ SinReturn

\* The function runs to its return once called: nothing suspends it.
SpecSin == InitSin /\ [][NextSin]_vars /\ WF_vars(NextSin)

\* x truncated toward zero to an integer is < -32 or > 32.
OutOfRange(a) == TruncToInt(a) < -32 \/ TruncToInt(a) > 32

\* What holds in every state of a call of sin_approx.
SinStateInv ==
    /\ iters \in 0..5
    /\ IF OutOfRange(args) /\ pc = "done"
       THEN ret = 0 /\ iters = 0 /\ x = args
       ELSE TRUE
    /\ OutOfRange(args) => pc \in {"guard", "done"}
    /\ pc = "fold" => (-M_PIf <= x /\ x <= M_PIf)
    /\ pc = "poly" => (-HalfPi <= x /\ x <= HalfPi)
    /\ IF pc = "done" THEN ret = sin_approx(args) ELSE ret = NotReturned

\* C10: sin_approx returns 0 without entering the wrap loops when the input
\* truncated to an integer is outside -32..32; otherwise the wrap loops run at
\* most 5 iterations in total, each strictly reducing |x|, leave x in [-pi, pi],
\* the reflection leaves it in [-pi/2, pi/2], and the call returns.
C10_SinWrapTerminates ==
    /\ []SinStateInv
    /\ [][iters' # iters => Abs(x') < Abs(x)]_vars
    /\ <>(pc = "done")

\* C10 witness: a call that needed all 5 iterations has returned.
C10_Witness == pc = "done" /\ iters = 5 /\ ~OutOfRange(args) /\ args < 0

\* A second witness state: a rejected input has returned.
C10_WitnessRejected == pc = "done" /\ OutOfRange(args) /\ TruncToInt(args) = 33

\* And one too large for xint.
C10_WitnessUnconvertible ==
    pc = "done" /\ ToInt32(args) # {TruncToInt(args)} /\ ret = 0 /\ iters = 0

-----------------------------------------------------------------------------
(* Integer utilities, lines 107-112 and 150-154.                           *)

\* C integer division truncates toward zero.
TDiv(a, b) == Sgn(a) * Sgn(b) * (Abs(a) \div Abs(b))

\* Width standing for the 32 bits of int32_t in applyDeadband.
DeadbandBits == 5

\* ABS(value) (maths.h: the operand if positive, else its negation, in the
\* operand's type).  Negating the least int32_t overflows, which is undefined:
\* the negation wraps back to the least value, or the compiler, entitled to
\* assume no overflow, compares the mathematical magnitude.
ABS(value) ==
    IF value = IntMin(DeadbandBits)
    THEN {IntMin(DeadbandBits), -IntMin(DeadbandBits)}
    ELSE {Abs(value)}

\* applyDeadband(value, deadband), given the outcome a of ABS(value).
applyDeadband(value, deadband, a) ==
    IF a < deadband THEN 0
    ELSE IF value >= 0 THEN Wrap(value - deadband, DeadbandBits)
    ELSE Wrap(value + deadband, DeadbandBits)

InitDeadband ==
    /\ pc = "call"
    /\ args \in [value : IntMin(DeadbandBits)..IntMax(DeadbandBits),
                 deadband : 0..IntMax(DeadbandBits)]
    /\ ret = None
    /\ fault = FALSE
    /\ dev = None /\ samples = None /\ qVector = None /\ qReference = None
    /\ src = None /\ dest = None /\ q = None /\ matrix = None
    /\ x = None /\ iters = None

CallApplyDeadband ==
    /\ pc = "call"
    /\ \E a \in ABS(args.value) :
          ret' = applyDeadband(args.value, args.deadband, a)
    /\ fault' = (args.value = IntMin(DeadbandBits))
    /\ pc' = "done"
    /\ UNCHANGED <<args, dev, samples, qVector, qReference,
                   src, dest, q, matrix, x, iters>>

NextDeadband == CallApplyDeadband

SpecDeadband == InitDeadband /\ [][NextDeadband]_vars

\* C6: for every value of the full range and every deadband >= 0,
\* applyDeadband returns 0 when |value| < deadband and otherwise value moved
\* toward zero by deadband, so that |result| = |value| - deadband.
C6_DeadbandFullRange ==
    pc = "done" =>
        /\ Abs(args.value) < args.deadband => ret = 0
        /\ Abs(args.value) >= args.deadband =>
              /\ ret = (IF args.value >= 0 THEN args.value - args.deadband
                        ELSE args.value + args.deadband)
              /\ Abs(ret) = Abs(args.value) - args.deadband

\* The same statement away from the least value, where the code meets it.
C6_DeadbandAboveMin ==
    (pc = "done" /\ args.value # IntMin(DeadbandBits)) => C6_DeadbandFullRange

\* Width standing for int in scaleRange; long int has twice the width.
ScaleBits == 3
LongBits == 2 * ScaleBits

\* long int a = ((long int) destTo - (long int) destFrom)
\*              * ((long int) x - (long int) srcFrom);  (the exact product)
ScaleProduct(a) == (a.destTo - a.destFrom) * (a.x - a.srcFrom)

\* long int b = (long int) srcTo - (long int) srcFrom;
ScaleDivisor(a) == a.srcTo - a.srcFrom

\* (a / b) + destFrom, in long int, before the conversion to int.
ScaleSum(a) ==
    Wrap(TDiv(Wrap(ScaleProduct(a), LongBits), ScaleDivisor(a)), LongBits)
        + a.destFrom

\* scaleRange(x, srcFrom, srcTo, destFrom, destTo)
scaleRange(a) == Wrap(Wrap(ScaleSum(a), LongBits), ScaleBits)

\* Whether an intermediate value of scaleRange(a) overflowed long int.
scaleRangeOverflows(a) ==
    \/ ~Fits(ScaleProduct(a), LongBits)
    \/ ~Fits(TDiv(Wrap(ScaleProduct(a), LongBits), ScaleDivisor(a)), LongBits)
    \/ ~Fits(ScaleSum(a), LongBits)

ScaleInts == IntMin(ScaleBits)..IntMax(ScaleBits)

InitScale ==
    /\ pc = "call"
    /\ args \in [x : ScaleInts, srcFrom : ScaleInts, srcTo : ScaleInts,
                 destFrom : ScaleInts, destTo : ScaleInts]
    /\ args.srcTo # args.srcFrom
    /\ ret = None
    /\ fault = FALSE
    /\ dev = None /\ samples = None /\ qVector = None /\ qReference = None
    /\ src = None /\ dest = None /\ q = None /\ matrix = None
    /\ x = None /\ iters = None

CallScaleRange ==
    /\ pc = "call"
    /\ ret' = scaleRange(args)
    /\ fault' = scaleRangeOverflows(args)
    /\ pc' = "done"
    /\ UNCHANGED <<args, dev, samples, qVector, qReference,
                   src, dest, q, matrix, x, iters>>

NextScale == CallScaleRange

SpecScale == InitScale /\ [][NextScale]_vars

\* destFrom + trunc((destTo - destFrom) * (x - srcFrom) / (srcTo - srcFrom))
ScaleExact(a) == a.destFrom + TDiv(ScaleProduct(a), ScaleDivisor(a))

\* C3: with srcTo # srcFrom, no intermediate value of scaleRange overflows the
\* long int accumulator (twice as wide as int), and whenever the exact value
\* fits in int, scaleRange returns exactly it.
C3_ScaleRangeNoOverflow ==
    pc = "done" =>
        /\ ~fault
        /\ Fits(ScaleExact(args), ScaleBits) => ret = ScaleExact(args)

\* What the code does meet: the result is exact whenever nothing overflowed.
C3_ExactUnlessOverflow ==
    (pc = "done" /\ ~fault /\ Fits(ScaleExact(args), ScaleBits))
        => ret = ScaleExact(args)

-----------------------------------------------------------------------------
(* Running statistics, lines 121-144, in exact arithmetic: a float is a    *)
(* rational <<num, den>> in lowest terms with den > 0.                     *)

RECURSIVE GCD(_, _)
GCD(a, b) == IF b = 0 THEN a ELSE GCD(b, a % b)

RNorm(n, d) ==
    LET g == GCD(Abs(n), Abs(d))
    IN  <<Sgn(d) * Sgn(n) * (Abs(n) \div g), Abs(d) \div g>>

RInt(n) == <<n, 1>>
RAdd(a, b) == RNorm(a[1] * b[2] + b[1] * a[2], a[2] * b[2])
RSub(a, b) == RNorm(a[1] * b[2] - b[1] * a[2], a[2] * b[2])
RMul(a, b) == RNorm(a[1] * b[1], a[2] * b[2])
RDiv(a, b) == RNorm(a[1] * b[2], a[2] * b[1])

\* The rational a as a float of the fixed-point model.
RToFloat(a) == Sgn(a[1]) * FDivAbs(Abs(a[1]), a[2])

\* Samples are the integers 0..MaxSample; at most MaxPush are pushed between
\* two devClear (the guard that caps the counter m_n).
MaxSample == 3
MaxPush == 5

\* A zero-initialised stdev_t.
DevZero ==
    [m_oldM |-> RInt(0), m_newM |-> RInt(0), m_oldS |-> RInt(0),
     m_newS |-> RInt(0), m_n |-> 0]

devClear(d) == [d EXCEPT !.m_n = 0]

devPush(d, s) ==
    LET n == d.m_n + 1
    IN  IF n = 1
        THEN [d EXCEPT !.m_n = n, !.m_oldM = s, !.m_newM = s,
                       !.m_oldS = RInt(0)]
        ELSE LET newM == RAdd(d.m_oldM, RDiv(RSub(s, d.m_oldM), RInt(n)))
                 newS == RAdd(d.m_oldS,
                              RMul(RSub(s, d.m_oldM), RSub(s, newM)))
             IN  [m_n |-> n, m_newM |-> newM, m_newS |-> newS,
                  m_oldM |-> newM, m_oldS |-> newS]

\* The variance over all samples, m_newS / m_n, instead of the sample variance.
devVariance_Population(d) ==
    IF d.m_n > 1 THEN RDiv(d.m_newS, RInt(d.m_n)) ELSE RInt(0)

devVariance(d) ==
    IF d.m_n > 1 THEN RDiv(d.m_newS, RInt(d.m_n - 1)) ELSE RInt(0)

devStandardDeviation(d) == sqrtf(RToFloat(devVariance(d)))

InitDev ==
    /\ pc = "init"
    /\ dev = DevZero
    /\ samples = [pushed |-> <<>>, discarded |-> FALSE]
    /\ args = None
    /\ ret = None
    /\ fault = FALSE
    /\ qVector = None /\ qReference = None
    /\ src = None /\ dest = None /\ q = None /\ matrix = None
    /\ x = None /\ iters = None

DevFrame ==
    UNCHANGED <<fault, qVector, qReference, src, dest, q, matrix, x, iters>>

DevClear ==
    /\ dev' = devClear(dev)
    /\ samples' = [pushed |-> <<>>,
                   discarded |-> samples.discarded \/ samples.pushed # <<>>]
    /\ args' = None
    /\ ret' = None
    /\ pc' = "devClear"
    /\ DevFrame

DevPush ==
    /\ dev.m_n < MaxPush
    /\ \E s \in 0..MaxSample :
          /\ dev' = devPush(dev, RInt(s))
          /\ samples' = [samples EXCEPT !.pushed = Append(@, s)]
          /\ args' = s
    /\ ret' = None
    /\ pc' = "devPush"
    /\ DevFrame

DevVariance ==
    /\ ret' = devVariance(dev)
    /\ args' = None
    /\ pc' = "devVariance"
    /\ UNCHANGED <<dev, samples>>
    /\ DevFrame

DevStandardDeviation ==
    /\ ret' = devStandardDeviation(dev)
    /\ args' = None
    /\ pc' = "devStandardDeviation"
    /\ UNCHANGED <<dev, samples>>
    /\ DevFrame

NextDev ==
    \/ DevClear
    \/ DevPush
    \/ DevVariance
    \/ DevStandardDeviation

SpecDev == InitDev /\ [][NextDev]_vars

RECURSIVE SeqSum(_)
SeqSum(s) == IF s = <<>> THEN 0 ELSE Head(s) + SeqSum(Tail(s))

RECURSIVE SumSqDev(_, _)
SumSqDev(s, mean) ==
    IF s = <<>> THEN RInt(0)
    ELSE RAdd(RMul(RSub(RInt(Head(s)), mean), RSub(RInt(Head(s)), mean)),
              SumSqDev(Tail(s), mean))

\* sum((x_i - mean)^2) / (n - 1) of a sequence of n >= 2 integers.
SampleVariance(s) ==
    RDiv(SumSqDev(s, RNorm(SeqSum(s), Len(s))), RInt(Len(s) - 1))

ExpectedVariance ==
    IF Len(samples.pushed) <= 1 THEN RInt(0)
    ELSE SampleVariance(samples.pushed)

\* C4: after any sequence of devClear, devPush and queries, devVariance is 0
\* for n <= 1 and otherwise the Bessel-corrected sample variance of exactly the
\* samples pushed since the most recent devClear.
C4_VarianceOfSamplesSinceClear ==
    /\ dev.m_n = Len(samples.pushed)
    /\ devVariance(dev) = ExpectedVariance
    /\ pc = "devVariance" => ret = ExpectedVariance
    /\ pc = "devStandardDeviation" => ret = sqrtf(RToFloat(ExpectedVariance))

\* C4 witness: samples were pushed and discarded by a devClear, three more
\* were pushed with queries possible in between, and devVariance has returned
\* a non-zero variance.
C4_Witness ==
    /\ pc = "devVariance"
    /\ samples.discarded
    /\ Len(samples.pushed) = 3
    /\ ret # RInt(0)
    /\ dev.m_newM # RInt(samples.pushed[1])

-----------------------------------------------------------------------------
(* Quaternions, lines 366-466.  A quaternion is a record [w, x, y, z].     *)

\* A product with the sign of one term of y wrong.
quaternionMultiply_SignSlip(l, r) ==
    [w |-> FMul(l.w, r.w) - FMul(l.x, r.x) - FMul(l.y, r.y) - FMul(l.z, r.z),
     x |-> FMul(l.w, r.x) + FMul(l.x, r.w) + FMul(l.y, r.z) - FMul(l.z, r.y),
     y |-> FMul(l.w, r.y) + FMul(l.x, r.z) + FMul(l.y, r.w) + FMul(l.z, r.x),
     z |-> FMul(l.w, r.z) + FMul(l.x, r.y) - FMul(l.y, r.x) + FMul(l.z, r.w)]

\* quaternionMultiply(l, r, o): the value written to *o.  The four components
\* are computed into locals before *o is written, so o may alias l or r.
quaternionMultiply(l, r) ==
    [w |-> FMul(l.w, r.w) - FMul(l.x, r.x) - FMul(l.y, r.y) - FMul(l.z, r.z),
     x |-> FMul(l.w, r.x) + FMul(l.x, r.w) + FMul(l.y, r.z) - FMul(l.z, r.y),
     y |-> FMul(l.w, r.y) - FMul(l.x, r.z) + FMul(l.y, r.w) + FMul(l.z, r.x),
     z |-> FMul(l.w, r.z) + FMul(l.x, r.y) - FMul(l.y, r.x) + FMul(l.z, r.w)]

\* quaternionCopy(s, d): the value written to *d.
quaternionCopy(s) == [w |-> s.w, x |-> s.x, y |-> s.y, z |-> s.z]

\* quaternionConjugate(i, o): the value written to *o.
quaternionConjugate(i) == [w |-> i.w, x |-> -i.x, y |-> -i.y, z |-> -i.z]

quaternionNorm(a) ==
    FMul(a.w, a.w) + FMul(a.x, a.x) + FMul(a.y, a.y) + FMul(a.z, a.z)

quaternionModulus(a) == sqrtf(quaternionNorm(a))

\* quaternionTransformVectorBodyToEarth(qVector, qReference): the value left
\* in *qVector; *qReference is only read.
quaternionTransformVectorBodyToEarth(qV, qRef) ==
    LET qVector0            == [qV EXCEPT !.w = 0]
        qVectorBuffer       == quaternionCopy(qVector0)
        qReferenceConjugate == quaternionConjugate(qRef)
        qVectorBuffer2      == quaternionMultiply(qRef, qVectorBuffer)
    IN  quaternionMultiply(qVectorBuffer2, qReferenceConjugate)

\* quaternionTransformVectorEarthToBody(qVector, qReference), likewise.
quaternionTransformVectorEarthToBody(qV, qRef) ==
    LET qVector0            == [qV EXCEPT !.w = 0]
        qVectorBuffer       == quaternionCopy(qVector0)
        qReferenceConjugate == quaternionConjugate(qRef)
        qVectorBuffer2      == quaternionMultiply(qReferenceConjugate, qVectorBuffer)
    IN  quaternionMultiply(qVectorBuffer2, qRef)

\* Vector components are the integers -MaxVec..MaxVec.
MaxVec == 1

\* Components of the unit reference quaternions: 0, 0.5, 0.6, 0.8, 1 and
\* their negatives.
UnitParts ==
    {0, Scale \div 2, -(Scale \div 2), 6 * (Scale \div 10), -6 * (Scale \div 10),
     8 * (Scale \div 10), -8 * (Scale \div 10), Scale, -Scale}

UnitQuaternions ==
    {a \in [w : UnitParts, x : UnitParts, y : UnitParts, z : UnitParts] :
        quaternionNorm(a) = F(1)}

VecParts == {F(k) : k \in (-MaxVec)..MaxVec}

InitQuat ==
    /\ pc = "body0"
    /\ qReference \in UnitQuaternions
    /\ qVector \in [w : {0, F(3)}, x : VecParts, y : VecParts, z : VecParts]
    /\ args = [qVector |-> qVector, qReference |-> qReference]
    /\ ret = None
    /\ fault = FALSE
    /\ dev = None /\ samples = None
    /\ src = None /\ dest = None /\ q = None /\ matrix = None
    /\ x = None /\ iters = None

QuatFrame ==
    UNCHANGED <<args, ret, fault, dev, samples, src, dest, q, matrix, x, iters>>

CallTransformBodyToEarth ==
    /\ pc = "body0"
    /\ qVector' = quaternionTransformVectorBodyToEarth(qVector, qReference)
    /\ UNCHANGED qReference
    /\ pc' = "earth"
    /\ QuatFrame

CallTransformEarthToBody ==
    /\ pc = "earth"
    /\ qVector' = quaternionTransformVectorEarthToBody(qVector, qReference)
    /\ UNCHANGED qReference
    /\ pc' = "body1"
    /\ QuatFrame

NextQuat ==
    \/ CallTransformBodyToEarth
    \/ CallTransformEarthToBody

SpecQuat == InitQuat /\ [][NextQuat]_vars

\* C5: for a unit qReference and any qVector (any incoming w), body-to-earth
\* followed by earth-to-body restores x, y, z exactly, leaves qVector.w = 0 and
\* leaves qReference unchanged.
C5_QuaternionRoundTrip ==
    /\ qReference = args.qReference
    /\ pc \in {"earth", "body1"} => qVector.w = 0
    /\ pc = "body1" =>
          /\ qVector.x = args.qVector.x
          /\ qVector.y = args.qVector.y
          /\ qVector.z = args.qVector.z

\* C5 witness: a round trip is complete for a vector that came in with w # 0
\* and a reference quaternion with no zero component.
C5_Witness ==
    /\ pc = "body1"
    /\ args.qVector.w # 0
    /\ args.qVector.x = F(1) /\ args.qVector.y = 0 /\ args.qVector.z = -F(1)
    /\ qReference = [w |-> Scale \div 2, x |-> -(Scale \div 2),
                     y |-> Scale \div 2, z |-> Scale \div 2]
    /\ qVector = [args.qVector EXCEPT !.w = 0]

\* The body-to-earth transform alone moves such a vector.
C5_WitnessRotated ==
    /\ pc = "earth"
    /\ args.qVector.x = F(1) /\ args.qVector.y = 0 /\ args.qVector.z = 0
    /\ qVector.x = 0 /\ qVector.y # 0

-----------------------------------------------------------------------------
(* Normalisation, lines 162-171 and 409-419.  Each operator gives the      *)
(* value left in the output object and the divisors the code divided by.   *)

\* sqrtf(src->X * src->X + src->Y * src->Y + src->Z * src->Z)
VectorLength(s) == sqrtf(FMul(s.X, s.X) + FMul(s.Y, s.Y) + FMul(s.Z, s.Z))

\* normalizeV without the test of line 166.  (A float division by zero gives
\* an infinity or a NaN: the model records the divisor and leaves the
\* component as it was.)
normalizeV_Unguarded(s, d) ==
    LET length == VectorLength(s)
    IN  [out |-> IF length # 0
                 THEN [X |-> FDiv(s.X, length), Y |-> FDiv(s.Y, length),
                       Z |-> FDiv(s.Z, length)]
                 ELSE d,
         divisors |-> {length}]

normalizeV(s, d) ==
    LET length == VectorLength(s)
    IN  IF length # 0
        THEN [out |-> [X |-> FDiv(s.X, length), Y |-> FDiv(s.Y, length),
                       Z |-> FDiv(s.Z, length)],
              divisors |-> {length}]
        ELSE [out |-> d, divisors |-> {}]

quaternionNormalize(a) ==
    LET modulus == quaternionModulus(a)
    IN  IF modulus = 0
        THEN [out |-> a, divisors |-> {}]
        ELSE [out |-> [w |-> FDiv(a.w, modulus), x |-> FDiv(a.x, modulus),
                       y |-> FDiv(a.y, modulus), z |-> FDiv(a.z, modulus)],
              divisors |-> {modulus}]

\* Components are the integers -MaxNormK..MaxNormK and +-Tiny / Scale, a number
\* small enough for its square to underflow to 0.
MaxNormK == 1
Tiny == 1000

NormParts == {F(k) : k \in (-MaxNormK)..MaxNormK} \cup {Tiny, -Tiny}

\* What *dest holds before normalizeV is called.
DestBefore == [X |-> F(7), Y |-> F(8), Z |-> F(9)]

InitNormalize ==
    /\ \/ /\ pc = "vector"
          /\ src \in [X : NormParts, Y : NormParts, Z : NormParts]
          /\ dest = DestBefore
          /\ q = None
          /\ args = [src |-> src, dest |-> dest]
       \/ /\ pc = "quaternion"
          /\ q \in [w : NormParts, x : NormParts, y : NormParts, z : NormParts]
          /\ src = None /\ dest = None
          /\ args = [q |-> q]
    /\ ret = None
    /\ fault = FALSE
    /\ dev = None /\ samples = None /\ qVector = None /\ qReference = None
    /\ matrix = None /\ x = None /\ iters = None

NormalizeFrame ==
    UNCHANGED <<args, ret, dev, samples, qVector, qReference, matrix, x, iters>>

CallNormalizeV ==
    /\ pc = "vector"
    /\ dest' = normalizeV(src, dest).out
    /\ fault' = (0 \in normalizeV(src, dest).divisors)
    /\ pc' = "vectorDone"
    /\ UNCHANGED <<src, q>>
    /\ NormalizeFrame

CallQuaternionNormalize ==
    /\ pc = "quaternion"
    /\ q' = quaternionNormalize(q).out
    /\ fault' = (0 \in quaternionNormalize(q).divisors)
    /\ pc' = "quaternionDone"
    /\ UNCHANGED <<src, dest>>
    /\ NormalizeFrame

NextNormalize ==
    \/ CallNormalizeV
    \/ CallQuaternionNormalize

SpecNormalize == InitNormalize /\ [][NextNormalize]_vars

ZeroVector == [X |-> 0, Y |-> 0, Z |-> 0]
ZeroQuaternion == [w |-> 0, x |-> 0, y |-> 0, z |-> 0]

\* C9 as stated: a zero input is left alone, no division by zero is performed,
\* and for every non-zero input each output component is the input component
\* divided by the (then non-zero) norm.
C9_NormalizeAnyNonZero ==
    /\ ~fault
    /\ pc = "vectorDone" =>
          /\ src = args.src
          /\ src = ZeroVector => dest = args.dest
          /\ src # ZeroVector =>
                /\ VectorLength(src) # 0
                /\ dest = [X |-> FDiv(src.X, VectorLength(src)),
                           Y |-> FDiv(src.Y, VectorLength(src)),
                           Z |-> FDiv(src.Z, VectorLength(src))]
    /\ pc = "quaternionDone" =>
          /\ args.q = ZeroQuaternion => q = args.q
          /\ args.q # ZeroQuaternion =>
                /\ quaternionModulus(args.q) # 0
                /\ q = [w |-> FDiv(args.q.w, quaternionModulus(args.q)),
                        x |-> FDiv(args.q.x, quaternionModulus(args.q)),
                        y |-> FDiv(args.q.y, quaternionModulus(args.q)),
                        z |-> FDiv(args.q.z, quaternionModulus(args.q))]

\* C9, amended: no division by zero is performed; the output is left alone
\* exactly when the computed norm (the sqrtf of the float sum of squares) is 0,
\* which is the case for the zero input and also for a non-zero input whose
\* squares underflow; otherwise each output component is the input component
\* divided by the computed norm.  src is never written.
C9_NormalizeByComputedNorm ==
    /\ ~fault
    /\ pc = "vectorDone" =>
          /\ src = args.src
          /\ src = ZeroVector => VectorLength(src) = 0
          /\ VectorLength(src) = 0 => dest = args.dest
          /\ VectorLength(src) # 0 =>
                dest = [X |-> FDiv(src.X, VectorLength(src)),
                        Y |-> FDiv(src.Y, VectorLength(src)),
                        Z |-> FDiv(src.Z, VectorLength(src))]
    /\ pc = "quaternionDone" =>
          /\ args.q = ZeroQuaternion => quaternionModulus(args.q) = 0
          /\ quaternionModulus(args.q) = 0 => q = args.q
          /\ quaternionModulus(args.q) # 0 =>
                q = [w |-> FDiv(args.q.w, quaternionModulus(args.q)),
                     x |-> FDiv(args.q.x, quaternionModulus(args.q)),
                     y |-> FDiv(args.q.y, quaternionModulus(args.q)),
                     z |-> FDiv(args.q.z, quaternionModulus(args.q))]

\* C9 witness: normalizeV has returned from the zero vector with dest as it was.
C9_Witness ==
    pc = "vectorDone" /\ src = ZeroVector /\ dest = DestBefore /\ ~fault

\* Further witness states: a vector was normalised; the zero quaternion was
\* left alone; a non-zero vector whose squares underflow was left alone.
C9_WitnessDivided ==
    pc = "vectorDone" /\ src = [X |-> F(1), Y |-> -F(1), Z |-> 0] /\ dest # DestBefore

C9_WitnessQuaternion ==
    pc = "quaternionDone" /\ args.q = ZeroQuaternion /\ q = ZeroQuaternion

C9_WitnessUnderflow ==
    pc = "vectorDone" /\ src = [X |-> Tiny, Y |-> 0, Z |-> 0] /\ dest = DestBefore

-----------------------------------------------------------------------------
(* Rotation matrix, lines 173-195.  A matrix is indexed [row][axis] with   *)
(* the axes X = 0, Y = 1, Z = 2 of axis.h.                                 *)

\* The cells with the sign of matrix[1][Z] wrong.
RotationCells_SignSlip(cosx, sinx, cosy, siny, cosz, sinz) ==
    LET coszcosx == FMul(cosz, cosx)
        sinzcosx == FMul(sinz, cosx)
        coszsinx == FMul(sinx, cosz)
        sinzsinx == FMul(sinx, sinz)
    IN  << <<FMul(cosz, cosy), FMul(-cosy, sinz), siny>>,
           <<sinzcosx + FMul(coszsinx, siny), coszcosx - FMul(sinzsinx, siny),
             FMul(sinx, cosy)>>,
           <<sinzsinx - FMul(coszcosx, siny), coszsinx + FMul(sinzcosx, siny),
             FMul(cosy, cosx)>> >>

\* Lines 182-194: the nine cells from the six sines and cosines, as
\* <<row 0, row 1, row 2>>, each row <<X, Y, Z>>.
RotationCells(cosx, sinx, cosy, siny, cosz, sinz) ==
    LET coszcosx == FMul(cosz, cosx)
        sinzcosx == FMul(sinz, cosx)
        coszsinx == FMul(sinx, cosz)
        sinzsinx == FMul(sinx, sinz)
    IN  << <<FMul(cosz, cosy), FMul(-cosy, sinz), siny>>,
           <<sinzcosx + FMul(coszsinx, siny), coszcosx - FMul(sinzsinx, siny),
             FMul(-sinx, cosy)>>,
           <<sinzsinx - FMul(coszcosx, siny), coszsinx + FMul(sinzcosx, siny),
             FMul(cosy, cosx)>> >>

\* buildRotationMatrix(delta, matrix): the value written to matrix.
buildRotationMatrix(delta) ==
    RotationCells(cos_approx(delta.roll), sin_approx(delta.roll),
                  cos_approx(delta.pitch), sin_approx(delta.pitch),
                  cos_approx(delta.yaw), sin_approx(delta.yaw))

\* Matrix algebra for the statements below (cells as above, 1-based here).
Dot(a, b) == FMul(a[1], b[1]) + FMul(a[2], b[2]) + FMul(a[3], b[3])
Col(m, j) == <<m[1][j], m[2][j], m[3][j]>>
MatMul(a, b) ==
    << <<Dot(a[1], Col(b, 1)), Dot(a[1], Col(b, 2)), Dot(a[1], Col(b, 3))>>,
       <<Dot(a[2], Col(b, 1)), Dot(a[2], Col(b, 2)), Dot(a[2], Col(b, 3))>>,
       <<Dot(a[3], Col(b, 1)), Dot(a[3], Col(b, 2)), Dot(a[3], Col(b, 3))>> >>

\* Euler angles are k * AngleStep (4.7 rad) for |k| <= MaxAngleK: up to 32.9.
MaxAngleK == 7
AngleStep == 47 * 10^6

AngleInputs == {k * AngleStep : k \in (-MaxAngleK)..MaxAngleK}

InitMatrix ==
    /\ pc = "call"
    /\ args \in [roll : AngleInputs, pitch : AngleInputs, yaw : AngleInputs]
    /\ matrix = None
    /\ ret = None
    /\ fault = FALSE
    /\ dev = None /\ samples = None /\ qVector = None /\ qReference = None
    /\ src = None /\ dest = None /\ q = None
    /\ x = None /\ iters = None

MatrixFrame ==
    UNCHANGED <<args, ret, fault, dev, samples, qVector, qReference,
                src, dest, q, x, iters>>

CallBuildRotationMatrix ==
    /\ pc = "call"
    /\ matrix' = buildRotationMatrix(args)
    /\ pc' = "done"
    /\ MatrixFrame

NextMatrix == CallBuildRotationMatrix

SpecMatrix == InitMatrix /\ [][NextMatrix]_vars

\* The tolerance of the orthonormality statements, in units of 1 / Scale.
OrthoTol == 300

Near(a, b) == Abs(a - b) <= OrthoTol

Orthonormal(m) ==
    /\ \A i \in 1..3 : Near(Dot(m[i], m[i]), F(1))
    /\ \A i \in 1..3 : \A j \in 1..3 : i < j => Near(Dot(m[i], m[j]), 0)

\* Neither sin_approx(a) nor cos_approx(a) = sin_approx(a + pi/2) takes the
\* out-of-range return.
InsideGuard(a) == ~OutOfRange(a) /\ ~OutOfRange(a + HalfPi)

\* C7 as stated: for any Euler angles, whatever their magnitude, the rows of
\* the matrix have unit norm and are pairwise orthogonal within tolerance.
C7_OrthonormalAnyAngle == pc = "done" => Orthonormal(matrix)

\* C7, amended: the rows are orthonormal within tolerance for Euler angles
\* each of which, and each of which plus pi/2, truncates to an integer in
\* -32..32, the range in which sin_approx and cos_approx do not return 0 for
\* an out-of-range input.
C7_OrthonormalInsideGuard ==
    (/\ pc = "done"
     /\ InsideGuard(args.roll) /\ InsideGuard(args.pitch) /\ InsideGuard(args.yaw))
        => Orthonormal(matrix)

\* C7 witness: a matrix was built from three non-zero angles inside the guard,
\* one of them beyond 28 radians.
C7_Witness ==
    /\ pc = "done"
    /\ args.roll = 6 * AngleStep /\ args.pitch = -AngleStep
    /\ args.yaw = -7 * AngleStep
    /\ InsideGuard(args.roll) /\ InsideGuard(args.yaw)
    /\ Orthonormal(matrix)

-----------------------------------------------------------------------------
(* The cells of the rotation matrix with the sines and cosines exact.      *)

\* (sine, cosine) of angles whose sine and cosine are decimal fractions.
ExactAngles ==
    {sc \in [sin : UnitParts, cos : UnitParts] :
        FMul(sc.sin, sc.sin) + FMul(sc.cos, sc.cos) = F(1)}

InitCells ==
    /\ pc = "call"
    /\ args \in [roll : ExactAngles, pitch : ExactAngles, yaw : ExactAngles]
    /\ matrix = None
    /\ ret = None
    /\ fault = FALSE
    /\ dev = None /\ samples = None /\ qVector = None /\ qReference = None
    /\ src = None /\ dest = None /\ q = None
    /\ x = None /\ iters = None

\* buildRotationMatrix with the six calls of lines 176-181 returning the exact
\* cosine and sine of each angle.
CallBuildRotationMatrixExact ==
    /\ pc = "call"
    /\ matrix' = RotationCells(args.roll.cos, args.roll.sin,
                               args.pitch.cos, args.pitch.sin,
                               args.yaw.cos, args.yaw.sin)
    /\ pc' = "done"
    /\ MatrixFrame

NextCells == CallBuildRotationMatrixExact

SpecCells == InitCells /\ [][NextCells]_vars

Rx(a) == << <<F(1), 0, 0>>, <<0, a.cos, -a.sin>>, <<0, a.sin, a.cos>> >>
Ry(a) == << <<a.cos, 0, a.sin>>, <<0, F(1), 0>>, <<-a.sin, 0, a.cos>> >>
Rz(a) == << <<a.cos, -a.sin, 0>>, <<a.sin, a.cos, 0>>, <<0, 0, F(1)>> >>

Row0 ==
    <<FMul(args.yaw.cos, args.pitch.cos), FMul(-args.pitch.cos, args.yaw.sin),
      args.pitch.sin>>

\* C8 as stated: the matrix equals Rz(yaw) * Ry(pitch) * Rx(roll) cell for
\* cell, and its row 0 is [cz*cy, -cy*sz, sy].
C8_EqualsRzRyRx ==
    pc = "done" =>
        /\ matrix = MatMul(Rz(args.yaw), MatMul(Ry(args.pitch), Rx(args.roll)))
        /\ matrix[1] = Row0

\* C8, amended: the matrix equals Rx(roll) * Ry(pitch) * Rz(yaw) cell for
\* cell (the product in the opposite order), and its row 0 is
\* [cz*cy, -cy*sz, sy].
C8_EqualsRxRyRz ==
    pc = "done" =>
        /\ matrix = MatMul(Rx(args.roll), MatMul(Ry(args.pitch), Rz(args.yaw)))
        /\ matrix[1] = Row0

\* C8 witness: the cells were written for three angles none of which is a
\* multiple of a right angle, where the two orders of the product differ.
C8_Witness ==
    /\ pc = "done"
    /\ args.roll.sin = 6 * (Scale \div 10) /\ args.roll.cos = 8 * (Scale \div 10)
    /\ args.pitch.sin = -8 * (Scale \div 10) /\ args.pitch.cos = 6 * (Scale \div 10)
    /\ args.yaw.sin = 6 * (Scale \div 10) /\ args.yaw.cos = -8 * (Scale \div 10)
    /\ matrix # MatMul(Rz(args.yaw), MatMul(Ry(args.pitch), Rx(args.roll)))

=============================================================================
